---- MODULE Spec2Model ----
(***************************************************************************)
(* A model of findaction.py: the search for workflow files that use an     *)
(* action, the analysis of each workflow document and the aggregation of   *)
(* the usages per repository into the report.                              *)
(*                                                                         *)
(* Text that the program inspects (the action identifier, the 'uses'       *)
(* references, repository names, synthesized step names) is a sequence of  *)
(* ASCII codes, so that substring search, formatting and lexicographic     *)
(* ordering are computed.  Opaque text (job names, path components,        *)
(* messages) is a TLA+ string.                                             *)
(***************************************************************************)
EXTENDS Integers, Sequences, FiniteSets, TLC

VARIABLES
    pc,               \* position of main()
    token,            \* args.token is non-empty
    search_status,    \* how the search request ended ("unsent" before it)
    search_results,   \* list returned by search_for_action
    files_processed,  \* loop counter of main()
    usage_by_repo,    \* dict: repository full name -> list of usage records
    total_usages,     \* running counter
    printed,          \* diagnostics written to the console, in order
    sleeps,           \* loop iterations (1-based) that ended in time.sleep(0.5)
    report,           \* the report file
    an_content,       \* analyzer under test: the file text
    an_info,          \* analyzer under test: file_info
    an_returned,      \* analyzer under test: the call has returned
    an_instances      \* analyzer under test: the returned list

vars == <<pc, token, search_status, search_results, files_processed,
          usage_by_repo, total_usages, printed, sleeps, report,
          an_content, an_info, an_returned, an_instances>>

mainVars == <<pc, token, search_status, search_results, files_processed,
              usage_by_repo, total_usages, sleeps, report>>

anVars == <<an_content, an_info, an_returned, an_instances>>

-----------------------------------------------------------------------------
(* Bounds *)

MaxSteps == 2
MaxFiles == 3

-----------------------------------------------------------------------------
(* Text *)

\* s occurs in t at offset i (0-based)
OccursAt(s, t, i) ==
    /\ i + Len(s) <= Len(t)
    /\ \A k \in 1..Len(s) : t[i + k] = s[k]

\* Python's  s in t  on two str values
StrContains(s, t) == \E i \in 0..Len(t) : OccursAt(s, t, i)

\* Python's  a < b  on two str values (code point order)
RECURSIVE StrLess(_, _)
StrLess(a, b) ==
    IF a = <<>> THEN b # <<>>
    ELSE IF b = <<>> THEN FALSE
    ELSE IF Head(a) # Head(b) THEN Head(a) < Head(b)
    ELSE StrLess(Tail(a), Tail(b))

\* str(n) for n >= 0
RECURSIVE Decimal(_)
Decimal(n) ==
    IF n < 10 THEN <<48 + n>> ELSE Decimal(n \div 10) \o <<48 + (n % 10)>>

\* "Step "
StepPrefix == <<83, 116, 101, 112, 32>>

-----------------------------------------------------------------------------
(* Values of a parsed document *)

Missing == [t |-> "missing", s |-> <<>>]     \* the key is absent
Null    == [t |-> "null",    s |-> <<>>]     \* YAML null, Python None
Str(x)  == [t |-> "str",     s |-> x]
Map(x)  == [t |-> "map",     s |-> x]        \* a mapping, x its items

\* --action
Target == <<97, 47, 98>>                                   \* a/b

RefPinned   == <<97, 47, 98, 64, 118, 50>>                 \* a/b@v2
RefSuffixed == <<97, 47, 98, 45, 115, 64, 118, 49>>        \* a/b-s@v1
RefPrefixed == <<120, 47, 97, 47, 98, 64, 118, 49>>        \* x/a/b@v1
RefOther    == <<97, 47, 99, 47, 98, 64, 118, 49>>         \* a/c/b@v1

NullStep == [t |-> "null", uses |-> Missing, name |-> Missing, with |-> Missing]
MapStep(u, n, w) == [t |-> "map", uses |-> u, name |-> n, with |-> w]

Checkout == Str(<<67, 111>>)                               \* name: Co
Inputs   == Map(<<102, 61, 49>>)                           \* with: {f: 1}

StepSet ==
    { NullStep,
      MapStep(Missing,          Checkout, Missing),
      MapStep(Null,             Missing,  Missing),
      MapStep(Str(RefPinned),   Checkout, Inputs),
      MapStep(Str(RefSuffixed), Missing,  Missing),
      MapStep(Str(RefPrefixed), Missing,  Inputs),
      MapStep(Str(RefOther),    Missing,  Missing) }

\* the steps lists of up to MaxSteps steps over S
StepSeqs(S) == UNION {[1..n -> S] : n \in 0..MaxSteps}

MissingSteps == [t |-> "missing", items |-> <<>>]
NullSteps    == [t |-> "null",    items |-> <<>>]
SeqSteps(s)  == [t |-> "seq",     items |-> s]

NullJob     == [t |-> "null", steps |-> MissingSteps]
MapJob(st)  == [t |-> "map",  steps |-> st]

\* the job configurations with steps over S
JobConfigsOver(S) ==
    {NullJob, MapJob(MissingSteps), MapJob(NullSteps)}
        \cup {MapJob(SeqSteps(s)) : s \in StepSeqs(S)}

JobConfigs == JobConfigsOver(StepSet)

JobNames == {"build", "test"}

\* the keys of a mapping are distinct and keep their document order
JobOrders ==
    UNION {{o \in [1..n -> JobNames] : \A i, j \in 1..n : i # j => o[i] # o[j]}
           : n \in 0..Cardinality(JobNames)}

\* the jobs mapping with keys o in this order and configurations cf
JobMap(o, cf) == [i \in 1..Len(o) |-> [name |-> o[i], config |-> cf[i]]]

MissingJobs == [t |-> "missing", items |-> <<>>]
NullJobs    == [t |-> "null",    items |-> <<>>]
SeqJobs(j)  == [t |-> "map",     items |-> j]

\* what yaml.safe_load gives for a text: it raises, or returns None, or a mapping
\* (other: the mapping has keys besides 'jobs')
YamlError == [t |-> "error", other |-> FALSE, jobs |-> MissingJobs]
YamlNone  == [t |-> "null",  other |-> FALSE, jobs |-> MissingJobs]
YamlMap(o, j) == [t |-> "map", other |-> o, jobs |-> j]

\* the documents without a jobs mapping
JoblessDocuments ==
    {YamlError, YamlNone, YamlMap(FALSE, MissingJobs), YamlMap(TRUE, MissingJobs),
     YamlMap(TRUE, NullJobs)}

\* a file text: whether the action identifier occurs in the raw text, and what
\* the YAML parser makes of the text
Text(h, y) == [has_target |-> h, yaml |-> y]

-----------------------------------------------------------------------------
(* analyze_workflow_content *)

\* step['uses'].startswith(action_name)
MatchesPrefix(action_name, uses) == OccursAt(action_name, uses.s, 0)

\* action_name in step['uses'], both str
Matches(action_name, uses) == StrContains(action_name, uses.s)

\* the default is f"Step {step_index}"
StepNameFromZero(step, step_index) ==
    IF step.name.t # "missing" THEN step.name
    ELSE Str(StepPrefix \o Decimal(step_index))

\* step.get('name', f"Step {step_index + 1}")
StepName(step, step_index) ==
    IF step.name.t # "missing" THEN step.name
    ELSE Str(StepPrefix \o Decimal(step_index + 1))

\* step.get('with', {})
StepInputs(step) == IF step.with.t # "missing" THEN step.with ELSE Map(<<>>)

Instance(job_name, step, step_index) ==
    [job        |-> job_name,
     step_name  |-> StepName(step, step_index),
     action_ref |-> step.uses,
     inputs     |-> StepInputs(step)]

\* the condition of line 76 raises TypeError: 'uses' in None, or
\* action_name in <a value that is no str>
StepRaises(step) ==
    \/ step.t = "null"
    \/ step.t = "map" /\ step.uses.t \notin {"missing", "str"}

\* 'uses' in step and action_name in step['uses'], for a step that does not raise
StepSelected(step, action_name) ==
    /\ step.uses.t # "missing"
    /\ Matches(action_name, step.uses)

\* for step_index, step in enumerate(job_config['steps']), from step_index on;
\* acc is the list  instances  so far
RECURSIVE ScanSteps(_, _, _, _, _)
ScanSteps(job_name, items, step_index, action_name, acc) ==
    IF step_index >= Len(items) THEN [raised |-> FALSE, instances |-> acc]
    ELSE LET step == items[step_index + 1] IN
         IF StepRaises(step) THEN [raised |-> TRUE, instances |-> acc]
         ELSE IF StepSelected(step, action_name)
              THEN ScanSteps(job_name, items, step_index + 1, action_name,
                             Append(acc, Instance(job_name, step, step_index)))
              ELSE ScanSteps(job_name, items, step_index + 1, action_name, acc)

\* the test is left out and job_config['steps'] is read at once
AlwaysHasSteps(job_config) == TRUE

\* 'steps' in job_config, for a job_config that is a mapping
HasSteps(job_config) == job_config.steps.t # "missing"

\* one job of the loop of line 72
ScanJob(job, action_name, acc) ==
    IF job.config.t = "null"
    THEN [raised |-> TRUE, instances |-> acc]          \* 'steps' in None
    ELSE IF ~HasSteps(job.config)
    THEN [raised |-> FALSE, instances |-> acc]
    ELSE IF job.config.steps.t # "seq"
    THEN [raised |-> TRUE, instances |-> acc]          \* enumerate(None), KeyError
    ELSE ScanSteps(job.name, job.config.steps.items, 0, action_name, acc)

\* for job_name, job_config in workflow_data['jobs'].items(), from job j on
RECURSIVE ScanJobs(_, _, _, _)
ScanJobs(jobs, j, action_name, acc) ==
    IF j > Len(jobs) THEN [raised |-> FALSE, instances |-> acc]
    ELSE LET r == ScanJob(jobs[j], action_name, acc) IN
         IF r.raised THEN r ELSE ScanJobs(jobs, j + 1, action_name, r.instances)

\* action_name in content
TextContains(action_name, content) == content.has_target

\* the guard  workflow_data and  is left out
AlwaysTruthy(workflow_data) == TRUE

\* bool(workflow_data): None and the empty mapping are false
Truthy(workflow_data) ==
    /\ workflow_data.t = "map"
    /\ workflow_data.other \/ workflow_data.jobs.t # "missing"

\* the body of the try block: what it returns, or that it raised
TryBody(content, action_name) ==
    IF ~TextContains(action_name, content)
    THEN [raised |-> FALSE, instances |-> <<>>]
    ELSE LET workflow_data == content.yaml IN
         IF workflow_data.t = "error"
         THEN [raised |-> TRUE, instances |-> <<>>]    \* yaml.YAMLError
         ELSE IF ~Truthy(workflow_data)
         THEN [raised |-> FALSE, instances |-> <<>>]
         ELSE IF workflow_data.t # "map"
         THEN [raised |-> TRUE, instances |-> <<>>]    \* 'jobs' in None
         ELSE IF workflow_data.jobs.t = "missing"
         THEN [raised |-> FALSE, instances |-> <<>>]
         ELSE IF workflow_data.jobs.t = "null"
         THEN [raised |-> TRUE, instances |-> <<>>]    \* None.items()
         ELSE ScanJobs(workflow_data.jobs.items, 1, action_name, <<>>)

ParseDiagnostic(file_info) ==
    [msg |-> "Error parsing workflow", path |-> file_info.path]

\* the handler returns the instances found before the exception
analyze_keep_partial(content, action_name, file_info) ==
    LET r == TryBody(content, action_name) IN
    IF r.raised
    THEN [ret |-> r.instances, out |-> <<ParseDiagnostic(file_info)>>]
    ELSE [ret |-> r.instances, out |-> <<>>]

\* ret: the returned list; out: what the call printed
analyze_workflow_content(content, action_name, file_info) ==
    LET r == TryBody(content, action_name) IN
    IF r.raised
    THEN [ret |-> <<>>, out |-> <<ParseDiagnostic(file_info)>>]
    ELSE [ret |-> r.instances, out |-> <<>>]

-----------------------------------------------------------------------------
(* The remote service: candidate files and their content *)

RepoA  == <<111, 47, 97>>          \* o/a
RepoAB == <<111, 47, 97, 98>>      \* o/ab
RepoB  == <<111, 47, 98>>          \* o/b
Repos  == {RepoA, RepoAB, RepoB}

\* one job, two matching steps, the second without a name
TextTwoUses ==
    Text(TRUE, YamlMap(TRUE, SeqJobs(<<
        [name |-> "build", config |-> MapJob(SeqSteps(<<
            MapStep(Str(RefPinned), Checkout, Inputs),
            MapStep(Str(RefPrefixed), Missing, Missing) >>))] >>)))

\* two jobs; a step without 'uses', then a matching one
TextOneUse ==
    Text(TRUE, YamlMap(TRUE, SeqJobs(<<
        [name |-> "lint", config |-> MapJob(MissingSteps)],
        [name |-> "test", config |-> MapJob(SeqSteps(<<
            MapStep(Missing, Checkout, Missing),
            MapStep(Str(RefSuffixed), Missing, Missing) >>))] >>)))

\* a matching step followed by a step whose 'uses' is null
TextNullUses ==
    Text(TRUE, YamlMap(TRUE, SeqJobs(<<
        [name |-> "build", config |-> MapJob(SeqSteps(<<
            MapStep(Str(RefPinned), Missing, Missing),
            MapStep(Null, Missing, Missing) >>))] >>)))

\* text that mentions the action and is no YAML
TextMalformed == Text(TRUE, YamlError)

\* a workflow that does not mention the action
TextUnrelated ==
    Text(FALSE, YamlMap(TRUE, SeqJobs(<<
        [name |-> "build", config |-> MapJob(SeqSteps(<<
            MapStep(Str(RefOther), Missing, Missing) >>))] >>)))

Base64(text) == [b64 |-> TRUE,  text |-> text]     \* base64 of the text
Plain(text)  == [b64 |-> FALSE, text |-> text]     \* the text itself

ContentOk(encoding, payload) ==
    [status |-> "ok", encoding |-> encoding, content |-> payload]
ContentHttpError ==
    [status |-> "error", encoding |-> "none", content |-> Plain(TextUnrelated)]

Item(repo, path, response) ==
    [repository |-> repo, path |-> path, response |-> response]

PathCi      == <<".github", "workflows", "ci.yml">>
PathRelease == <<".github", "workflows", "release.yaml">>
PathBroken  == <<".github", "workflows", "broken.yml">>
PathGone    == <<".github", "workflows", "gone.yml">>

Candidates ==
    {Item(r, PathCi, ContentOk("base64", Base64(TextTwoUses))) : r \in Repos}
        \cup {Item(r, PathRelease, ContentOk("none", Plain(TextOneUse)))
              : r \in {RepoA, RepoB}}
        \cup {Item(r, PathGone, ContentHttpError) : r \in {RepoA, RepoAB}}
        \cup {Item(RepoB, PathBroken, ContentOk("base64", Base64(TextNullUses))),
              Item(RepoAB, PathBroken, ContentOk("base64", Base64(TextMalformed))),
              Item(RepoA, PathBroken, ContentOk("none", Plain(TextUnrelated)))}

ItemLists == UNION {[1..n -> Candidates] : n \in 0..MaxFiles}

\* what the search request meets
SearchAnswer(failure, rate_limit, has_items, items) ==
    [failure |-> failure, rate_limit |-> rate_limit,
     has_items |-> has_items, items |-> items]

SearchResponses ==
    {SearchAnswer(f, FALSE, FALSE, <<>>) : f \in {"connection", "status", "json"}}
        \cup {SearchAnswer("none", TRUE, FALSE, <<>>),
              SearchAnswer("none", FALSE, FALSE, <<>>)}
        \cup {SearchAnswer("none", FALSE, TRUE, l) : l \in ItemLists}

\* how a search request ended: the failure and the rate-limit message
Status(response) == [failure |-> response.failure, rate_limit |-> response.rate_limit]

NoResponse == [failure |-> "unsent", rate_limit |-> FALSE]

-----------------------------------------------------------------------------
(* search_for_action *)

\* the exception is a requests.exceptions.HTTPError
IsHTTPError(failure) == failure = "status"

\* ret: the returned list; raised: an exception left the function
search_for_action(response) ==
    IF response.failure # "none"
    THEN IF IsHTTPError(response.failure)
         THEN [raised |-> FALSE, ret |-> <<>>,
               out |-> <<[msg |-> "Error searching for actions", path |-> <<>>]>>]
         ELSE [raised |-> TRUE, ret |-> <<>>, out |-> <<>>]
    ELSE IF response.rate_limit
    THEN [raised |-> FALSE, ret |-> <<>>,
          out |-> <<[msg |-> "Rate limit exceeded", path |-> <<>>]>>]
    ELSE [raised |-> FALSE,
          ret |-> IF response.has_items THEN response.items ELSE <<>>,
          out |-> <<>>]

-----------------------------------------------------------------------------
(* get_file_content *)

\* base64.b64decode(...).decode('utf-8')
B64Decode(payload) ==
    IF payload.b64 THEN [raised |-> FALSE, ret |-> payload.text]
    ELSE [raised |-> TRUE, ret |-> payload.text]

\* a payload returned as it is: the text, or base64 characters that are no
\* workflow and do not mention the action
Verbatim(payload) ==
    IF payload.b64 THEN Text(FALSE, YamlError) ELSE payload.text

get_file_content(response) ==
    IF response.status = "error"
    THEN [raised |-> TRUE, ret |-> Text(FALSE, YamlNone)]     \* raise_for_status
    ELSE IF response.encoding = "base64"
    THEN B64Decode(response.content)
    ELSE [raised |-> FALSE, ret |-> Verbatim(response.content)]

-----------------------------------------------------------------------------
(* main *)

\* os.path.basename
Basename(file_path) == file_path[Len(file_path)]

\* {'workflow': file_name, 'path': file_path, **instance}
UsageRecord(file_name, file_path, instance) ==
    [workflow   |-> file_name,
     path       |-> file_path,
     job        |-> instance.job,
     step_name  |-> instance.step_name,
     action_ref |-> instance.action_ref,
     inputs     |-> instance.inputs]

EmptyDict == [r \in {} |-> <<>>]

\* counts files with usages instead of usages
AddOneToTotal(total, instances) == total + 1

\* total_usages += len(instances)
AddToTotal(total, instances) == total + Len(instances)

\* lines 141-149: the list of the repository, created on first use, extended
\* by the records of the file in their order
AddUsages(usage, repo_name, records) ==
    IF repo_name \in DOMAIN usage
    THEN [usage EXCEPT ![repo_name] = @ \o records]
    ELSE usage @@ (repo_name :> records)

\* the greatest key: the order of sorted(..., reverse=True)
MaxRepo(S) == CHOOSE r \in S : \A q \in S \ {r} : StrLess(q, r)

\* the least key in code point order
MinRepo(S) == CHOOSE r \in S : \A q \in S \ {r} : StrLess(r, q)

\* sorted(usage_by_repo.items()): the keys are distinct, so the pairs are in
\* the order of their keys
RECURSIVE SortedKeys(_)
SortedKeys(S) ==
    IF S = {} THEN <<>>
    ELSE LET m == MinRepo(S) IN <<m>> \o SortedKeys(S \ {m})

SortedItems(usage) ==
    LET keys == SortedKeys(DOMAIN usage) IN
    [i \in 1..Len(keys) |-> [repo |-> keys[i], instances |-> usage[keys[i]]]]

NoReport ==
    [written |-> FALSE, repos_with_action |-> 0, total_usages |-> 0,
     sections |-> <<>>, no_instances_line |-> FALSE]

\* lines 158-190
RenderReport(usage, total) ==
    LET repos_with_action == Cardinality(DOMAIN usage) IN
    [written           |-> TRUE,
     repos_with_action |-> repos_with_action,
     total_usages      |-> total,
     sections          |-> IF repos_with_action > 0 THEN SortedItems(usage) ELSE <<>>,
     no_instances_line |-> ~(repos_with_action > 0)]

\* file_info
AnalyzerInfo == [repo |-> RepoA, path |-> PathCi, name |-> Basename(PathCi)]

\* the analyzer is not under test
AnalyzerIdle ==
    /\ an_content = Text(FALSE, YamlNone)
    /\ an_info = AnalyzerInfo
    /\ an_returned = FALSE
    /\ an_instances = <<>>

Init ==
    /\ pc = "start"
    /\ token \in BOOLEAN
    /\ search_status = NoResponse
    /\ search_results = <<>>
    /\ files_processed = 0
    /\ usage_by_repo = EmptyDict
    /\ total_usages = 0
    /\ printed = <<>>
    /\ sleeps = {}
    /\ report = NoReport
    /\ AnalyzerIdle

\* lines 103-105
CheckToken ==
    /\ pc = "start"
    /\ IF token
       THEN /\ pc' = "search"
            /\ printed' = printed
       ELSE /\ pc' = "exit1"
            /\ printed' = Append(printed, [msg |-> "Error: GitHub token is required",
                                           path |-> <<>>])
    /\ UNCHANGED <<token, search_status, search_results, files_processed,
                   usage_by_repo, total_usages, sleeps, report>>
    /\ UNCHANGED anVars

\* lines 108-116: an exception that leaves search_for_action ends the process
\* with a traceback
Search ==
    /\ pc = "search"
    /\ \E response \in SearchResponses :
         LET r == search_for_action(response) IN
         /\ search_status' = Status(response)
         /\ printed' = printed \o r.out
         /\ IF r.raised
            THEN /\ pc' = "crashed"
                 /\ search_results' = search_results
            ELSE /\ pc' = "scan"
                 /\ search_results' = r.ret
    /\ UNCHANGED <<token, files_processed, usage_by_repo, total_usages, sleeps, report>>
    /\ UNCHANGED anVars

\* the exception of one file leaves the loop and ends the process
FileFailedAbort(file_path) ==
    /\ printed' = Append(printed, [msg |-> "Error processing", path |-> file_path])
    /\ pc' = "crashed"
    /\ UNCHANGED <<usage_by_repo, total_usages, sleeps>>

\* lines 154-155: the exception of one file is caught and reported
FileFailed(file_path) ==
    /\ printed' = Append(printed, [msg |-> "Error processing", path |-> file_path])
    /\ pc' = pc
    /\ UNCHANGED <<usage_by_repo, total_usages, sleeps>>

\* lines 118-155: one iteration of the loop
ProcessFile ==
    /\ pc = "scan"
    /\ files_processed < Len(search_results)
    /\ LET item      == search_results[files_processed + 1]
           repo_name == item.repository
           file_path == item.path
           file_name == Basename(file_path)
           fetched   == get_file_content(item.response)
       IN
       /\ files_processed' = files_processed + 1
       /\ IF fetched.raised
          THEN FileFailed(file_path)
          ELSE LET a == analyze_workflow_content(fetched.ret, Target,
                            [repo |-> repo_name, path |-> file_path, name |-> file_name])
                   instances == a.ret
                   records == [i \in 1..Len(instances) |->
                                 UsageRecord(file_name, file_path, instances[i])]
               IN
               /\ printed' = printed \o a.out
               /\ IF instances # <<>>
                  THEN /\ total_usages' = AddToTotal(total_usages, instances)
                       /\ usage_by_repo' = AddUsages(usage_by_repo, repo_name, records)
                  ELSE UNCHANGED <<usage_by_repo, total_usages>>
               /\ sleeps' = sleeps \cup {files_processed + 1}
               /\ pc' = pc
    /\ UNCHANGED <<token, search_status, search_results, report>>
    /\ UNCHANGED anVars

\* lines 157-193
WriteReport ==
    /\ pc = "scan"
    /\ files_processed = Len(search_results)
    /\ report' = RenderReport(usage_by_repo, total_usages)
    /\ pc' = "done"
    /\ UNCHANGED <<token, search_status, search_results, files_processed,
                   usage_by_repo, total_usages, printed, sleeps>>
    /\ UNCHANGED anVars

Next == CheckToken \/ Search \/ ProcessFile \/ WriteReport

Spec == Init /\ [][Next]_vars

-----------------------------------------------------------------------------
(* analyze_workflow_content on its own, over every bounded document *)

InitAnalyze ==
    /\ pc = "analyze"
    /\ token = TRUE
    /\ search_status = NoResponse
    /\ search_results = <<>>
    /\ files_processed = 0
    /\ usage_by_repo = EmptyDict
    /\ total_usages = 0
    /\ printed = <<>>
    /\ sleeps = {}
    /\ report = NoReport
    /\ \/ \E h \in BOOLEAN : \E y \in JoblessDocuments : an_content = Text(h, y)
       \/ \E o \in JobOrders : \E cf \in [1..Len(o) -> JobConfigs] :
            an_content = Text(TRUE, YamlMap(TRUE, SeqJobs(JobMap(o, cf))))
       \* a text in which the action identifier does not occur, also when a
       \* parsed value holds it (a YAML escape in the text)
       \/ \E n \in JobNames : \E c \in JobConfigs :
            an_content = Text(FALSE, YamlMap(TRUE, SeqJobs(JobMap(<<n>>, <<c>>))))
    /\ an_info = AnalyzerInfo
    /\ an_returned = FALSE
    /\ an_instances = <<>>

AnalyzeCall ==
    /\ pc = "analyze"
    /\ ~an_returned
    /\ LET a == analyze_workflow_content(an_content, Target, an_info) IN
       /\ an_instances' = a.ret
       /\ printed' = printed \o a.out
    /\ an_returned' = TRUE
    /\ UNCHANGED <<an_content, an_info>>
    /\ UNCHANGED mainVars

NextAnalyze == AnalyzeCall

SpecAnalyze == InitAnalyze /\ [][NextAnalyze]_vars

-----------------------------------------------------------------------------
(* main after a search that returned two files of one repository: a workflow
   with two usages, then any bounded document that mentions the action, with
   steps that use the target, do not, or make the analysis raise *)

FileSteps ==
    { NullStep,
      MapStep(Null,           Missing,  Missing),
      MapStep(Missing,        Checkout, Missing),
      MapStep(Str(RefPinned), Missing,  Inputs) }

FirstFile == Item(RepoA, PathCi, ContentOk("base64", Base64(TextTwoUses)))

\* a file of the same repository whose text parses to y
SecondFile(y) ==
    Item(RepoA, PathRelease, ContentOk("base64", Base64(Text(TRUE, y))))

InitTwoFiles ==
    /\ pc = "scan"
    /\ token = TRUE
    /\ \/ \E y \in JoblessDocuments :
            search_results = <<FirstFile, SecondFile(y)>>
       \/ \E o \in JobOrders : \E cf \in [1..Len(o) -> JobConfigsOver(FileSteps)] :
            search_results =
              <<FirstFile, SecondFile(YamlMap(TRUE, SeqJobs(JobMap(o, cf))))>>
    /\ search_status = Status(SearchAnswer("none", FALSE, TRUE, search_results))
    /\ files_processed = 0
    /\ usage_by_repo = EmptyDict
    /\ total_usages = 0
    /\ printed = <<>>
    /\ sleeps = {}
    /\ report = NoReport
    /\ AnalyzerIdle

NextTwoFiles == ProcessFile \/ WriteReport

SpecTwoFiles == InitTwoFiles /\ [][NextTwoFiles]_vars

-----------------------------------------------------------------------------
(* Properties of main, under Spec *)

FetchFails(item) == get_file_content(item.response).raised

AnalysisFails(item) ==
    /\ ~FetchFails(item)
    /\ analyze_workflow_content(get_file_content(item.response).ret, Target,
           [repo |-> item.repository, path |-> item.path,
            name |-> Basename(item.path)]).out # <<>>

\* the usage records one candidate yields: none when its fetch fails
ItemRecords(item) ==
    IF FetchFails(item) THEN <<>>
    ELSE LET ret == analyze_workflow_content(get_file_content(item.response).ret,
                        Target, [repo |-> item.repository, path |-> item.path,
                                 name |-> Basename(item.path)]).ret
         IN [i \in 1..Len(ret) |-> UsageRecord(Basename(item.path), item.path, ret[i])]

\* the records of the first n candidates that belong to repo, in search order
RECURSIVE Discovered(_, _)
Discovered(n, repo) ==
    IF n = 0 THEN <<>>
    ELSE Discovered(n - 1, repo)
           \o (IF search_results[n].repository = repo
               THEN ItemRecords(search_results[n]) ELSE <<>>)

RecordsOf(repo) ==
    IF repo \in DOMAIN usage_by_repo THEN usage_by_repo[repo] ELSE <<>>

Printed(line) == \E k \in 1..Len(printed) : printed[k] = line

\* C1: a candidate whose fetch or analysis fails gets a diagnostic and the loop
\* goes on: the process does not end in the loop, every candidate processed so
\* far has contributed exactly its own records whatever failed before it, and
\* the report is written after the last candidate.
C1_ScanContinuesAfterFailure ==
    files_processed > 0 =>
        /\ pc \in {"scan", "done"}
        /\ pc = "scan" =>
             \/ files_processed < Len(search_results)      \* the next candidate
             \/ files_processed = Len(search_results)      \* the report
        /\ \A i \in 1..files_processed :
             /\ FetchFails(search_results[i]) =>
                  Printed([msg |-> "Error processing", path |-> search_results[i].path])
             /\ AnalysisFails(search_results[i]) =>
                  Printed([msg |-> "Error parsing workflow",
                           path |-> search_results[i].path])
        /\ \A repo \in Repos : RecordsOf(repo) = Discovered(files_processed, repo)
        /\ pc = "done" => files_processed = Len(search_results) /\ report.written

\* the first candidate fails to fetch, the second fails to parse, the third
\* yields usages, and the report is written
C1_Witness ==
    /\ pc = "done"
    /\ files_processed = 3
    /\ FetchFails(search_results[1])
    /\ AnalysisFails(search_results[2])
    /\ ItemRecords(search_results[3]) # <<>>
    /\ total_usages = Len(ItemRecords(search_results[3]))

SearchFailed(status) ==
    /\ status.failure # "unsent"
    /\ status.failure # "none" \/ status.rate_limit

\* C2: every failure of the search call is contained in search_for_action, which
\* returns an empty list; the run goes on to an empty report.
C2_SearchFailuresContained ==
    SearchFailed(search_status) =>
        /\ pc \in {"scan", "done"}
        /\ search_results = <<>>
        /\ pc = "done" =>
             /\ report.written
             /\ report.repos_with_action = 0
             /\ report.total_usages = 0
             /\ report.no_instances_line

\* C3: every iteration of the loop ends in the pause, whatever its outcome.
C3_PauseAfterEveryFile ==
    pc \in {"scan", "done"} => sleeps = 1..files_processed

RECURSIVE SumOfLengths(_, _)
SumOfLengths(usage, S) ==
    IF S = {} THEN 0
    ELSE LET r == CHOOSE x \in S : TRUE IN
         Len(usage[r]) + SumOfLengths(usage, S \ {r})

\* C6: the counter equals the sum of the lengths of the per-repository lists, no
\* repository is present with an empty list, and the report gives the number of
\* repositories with at least one record.
C6_TotalsAgree ==
    /\ total_usages = SumOfLengths(usage_by_repo, DOMAIN usage_by_repo)
    /\ \A r \in DOMAIN usage_by_repo : usage_by_repo[r] # <<>>
    /\ report.written =>
         /\ report.total_usages = SumOfLengths(usage_by_repo, DOMAIN usage_by_repo)
         /\ report.repos_with_action =
              Cardinality({r \in Repos : RecordsOf(r) # <<>>})

\* a failing, an empty and two successful candidates' worth of state: three
\* files done, one failed to fetch, two repositories with records
C6_Witness ==
    /\ report.written
    /\ files_processed = 3
    /\ \E i \in 1..3 : FetchFails(search_results[i])
    /\ Cardinality(DOMAIN usage_by_repo) = 2
    /\ total_usages = 3

\* C7: the report lists the repositories in code point order of their names and,
\* under each, its records in discovery order: by candidate in search order, and
\* within a candidate in the order the analysis returned them.
C7_ReportOrder ==
    report.written =>
        /\ {report.sections[k].repo : k \in 1..Len(report.sections)}
             = DOMAIN usage_by_repo
        /\ \A i, j \in 1..Len(report.sections) :
             i < j => StrLess(report.sections[i].repo, report.sections[j].repo)
        /\ \A k \in 1..Len(report.sections) :
             report.sections[k].instances
               = Discovered(Len(search_results), report.sections[k].repo)

\* the search returned o/b, o/a, o/b, each with usages: the report lists o/a
\* first, and o/b with the records of its two files around the file of o/a
C7_Witness ==
    /\ report.written
    /\ Len(search_results) = 3
    /\ search_results[1].repository = RepoB
    /\ search_results[2].repository = RepoA
    /\ search_results[3].repository = RepoB
    /\ search_results[1].path # search_results[3].path
    /\ \A i \in 1..3 : ItemRecords(search_results[i]) # <<>>
    /\ Len(report.sections) = 2
    /\ report.sections[1].repo = RepoA

-----------------------------------------------------------------------------
(* Properties of analyze_workflow_content, under SpecAnalyze *)

\* the text mentions the action and the parser returned a mapping
Parsed(content) == content.has_target /\ content.yaml.t = "map"

\* the jobs of a document, in document order
JobList(doc) == IF doc.jobs.t = "map" THEN doc.jobs.items ELSE <<>>

\* the steps of one job with their 1-based position
JobEntries(job) ==
    IF job.config.t = "map" /\ job.config.steps.t = "seq"
    THEN [k \in 1..Len(job.config.steps.items) |->
            [job |-> job.name, k |-> k, step |-> job.config.steps.items[k]]]
    ELSE <<>>

\* the steps of a document in document order of jobs and steps
RECURSIVE EntriesFrom(_, _)
EntriesFrom(jobs, j) ==
    IF j > Len(jobs) THEN <<>>
    ELSE JobEntries(jobs[j]) \o EntriesFrom(jobs, j + 1)

Entries(doc) == EntriesFrom(JobList(doc), 1)

\* the step has a 'uses' field whose value contains the target
UsesTarget(e) ==
    /\ e.step.t = "map"
    /\ e.step.uses.t = "str"
    /\ \E i \in 0..(Len(e.step.uses.s) - Len(Target)) :
         SubSeq(e.step.uses.s, i + 1, i + Len(Target)) = Target

Expected(doc) == SelectSeq(Entries(doc), UsesTarget)

JobsAreMappings(doc) ==
    \A j \in 1..Len(JobList(doc)) : JobList(doc)[j].config.t = "map"

StepsAreMappings(doc) ==
    \A k \in 1..Len(Entries(doc)) : Entries(doc)[k].step.t = "map"

\* every 'steps' value is a sequence and every 'uses' value is a string
WellTyped(doc) ==
    /\ doc.jobs.t \in {"missing", "map"}
    /\ \A j \in 1..Len(JobList(doc)) :
         JobList(doc)[j].config.t = "map" =>
             JobList(doc)[j].config.steps.t \in {"missing", "seq"}
    /\ \A k \in 1..Len(Entries(doc)) :
         Entries(doc)[k].step.t = "map" =>
             Entries(doc)[k].step.uses.t \in {"missing", "str"}

\* the returned list names exactly the steps that use the target, in order
ReturnsExpected ==
    /\ Len(an_instances) = Len(Expected(an_content.yaml))
    /\ \A i \in 1..Len(an_instances) :
         /\ an_instances[i].job = Expected(an_content.yaml)[i].job
         /\ an_instances[i].action_ref = Expected(an_content.yaml)[i].step.uses
         /\ an_instances[i].inputs.s = Expected(an_content.yaml)[i].step.with.s
    /\ \A i \in 1..Len(an_instances) :
         /\ an_instances[i].action_ref.t = "str"
         /\ StrContains(Target, an_instances[i].action_ref.s)

\* C4 as stated: for a text that mentions the action, a parse failure and an
\* empty or absent parse result both give a diagnostic naming the path and an
\* empty list.
C4_DiagnosticOnFailureOrEmpty ==
    (/\ an_returned
     /\ an_content.has_target
     /\ an_content.yaml \in {YamlError, YamlNone, YamlMap(FALSE, MissingJobs)})
        => /\ an_instances = <<>>
           /\ printed = <<[msg |-> "Error parsing workflow", path |-> an_info.path]>>

\* C4 amended: a parse failure gives the diagnostic naming the path and an empty
\* list; an empty or absent parse result gives an empty list and no diagnostic.
C4_DiagnosticOnlyOnFailure ==
    (an_returned /\ an_content.has_target) =>
        /\ an_content.yaml = YamlError =>
             /\ an_instances = <<>>
             /\ printed = <<[msg |-> "Error parsing workflow", path |-> an_info.path]>>
        /\ an_content.yaml \in {YamlNone, YamlMap(FALSE, MissingJobs)} =>
             /\ an_instances = <<>>
             /\ printed = <<>>

\* a text that mentions the action only in a comment: the parser returns None
C4_Witness ==
    /\ an_returned
    /\ an_content = Text(TRUE, YamlNone)
    /\ an_instances = <<>>
    /\ printed = <<>>

\* C5 as stated: for every parsed document whose jobs and steps are mappings,
\* the returned list holds exactly the steps whose 'uses' contains the target, in
\* document order.
C5_ExactlyTheMatchingSteps ==
    (/\ an_returned
     /\ Parsed(an_content)
     /\ an_content.yaml.jobs.t \in {"missing", "map"}
     /\ JobsAreMappings(an_content.yaml)
     /\ StepsAreMappings(an_content.yaml))
        => ReturnsExpected

\* C5 amended: the same, for the documents in which moreover every 'steps' value
\* is a sequence and every 'uses' value is a string.
C5_ExactlyTheMatchingStepsWellTyped ==
    (/\ an_returned
     /\ Parsed(an_content)
     /\ JobsAreMappings(an_content.yaml)
     /\ StepsAreMappings(an_content.yaml)
     /\ WellTyped(an_content.yaml))
        => ReturnsExpected

\* two jobs: x/a/b@v1 after a/c/b@v1 in the first, a step without 'uses' before
\* a/b-s@v1 in the second; the two matching steps are returned in this order
C5_Witness ==
    /\ an_returned
    /\ Parsed(an_content)
    /\ Len(JobList(an_content.yaml)) = 2
    /\ Len(Entries(an_content.yaml)) = 4
    /\ Entries(an_content.yaml)[1].step.uses = Str(RefOther)
    /\ Entries(an_content.yaml)[3].step.uses = Missing
    /\ Len(an_instances) = 2
    /\ an_instances[1].action_ref = Str(RefPrefixed)
    /\ an_instances[2].action_ref = Str(RefSuffixed)

\* a job that has a steps sequence of mappings with 'uses' absent or a string
CleanJob(job) ==
    /\ job.config.t = "map"
    /\ job.config.steps.t = "seq"
    /\ \A k \in 1..Len(job.config.steps.items) :
         /\ job.config.steps.items[k].t = "map"
         /\ job.config.steps.items[k].uses.t \in {"missing", "str"}

NoConfiguration(job) == job.config.t = "null"

MappingWithoutSteps(job) ==
    job.config.t = "map" /\ job.config.steps.t = "missing"

\* C8 as stated: a job that is a mapping without 'steps', or that has no
\* configuration at all, raises nothing and prints nothing, and the matching
\* steps of the other jobs are returned.
C8_JobWithoutStepsIsSkipped ==
    (/\ an_returned
     /\ Parsed(an_content)
     /\ \E j \in 1..Len(JobList(an_content.yaml)) :
          \/ MappingWithoutSteps(JobList(an_content.yaml)[j])
          \/ NoConfiguration(JobList(an_content.yaml)[j])
     /\ \A j \in 1..Len(JobList(an_content.yaml)) :
          \/ MappingWithoutSteps(JobList(an_content.yaml)[j])
          \/ NoConfiguration(JobList(an_content.yaml)[j])
          \/ CleanJob(JobList(an_content.yaml)[j]))
        => printed = <<>> /\ ReturnsExpected

\* C8 amended: a job whose configuration is a mapping without 'steps' raises
\* nothing and prints nothing, and the matching steps of the other jobs are
\* returned.
C8_MappingWithoutStepsIsSkipped ==
    (/\ an_returned
     /\ Parsed(an_content)
     /\ \E j \in 1..Len(JobList(an_content.yaml)) :
          MappingWithoutSteps(JobList(an_content.yaml)[j])
     /\ \A j \in 1..Len(JobList(an_content.yaml)) :
          \/ MappingWithoutSteps(JobList(an_content.yaml)[j])
          \/ CleanJob(JobList(an_content.yaml)[j]))
        => printed = <<>> /\ ReturnsExpected

\* a job without steps comes first; the usage in the job after it is returned
C8_Witness ==
    /\ an_returned
    /\ Parsed(an_content)
    /\ Len(JobList(an_content.yaml)) = 2
    /\ MappingWithoutSteps(JobList(an_content.yaml)[1])
    /\ CleanJob(JobList(an_content.yaml)[2])
    /\ Len(an_instances) = 1
    /\ an_instances[1].job = JobList(an_content.yaml)[2].name
    /\ printed = <<>>

\* "Step k" for a one-digit k
StepLabel(k) == Str(<<83, 116, 101, 112, 32, 48 + k>>)

\* C9: the step name of an instance is the 'name' field of its step when the
\* step has one, and otherwise "Step k", k the 1-based position of the step
\* among all the steps of its job.
C9_StepNames ==
    (/\ an_returned
     /\ Parsed(an_content)
     /\ JobsAreMappings(an_content.yaml)
     /\ StepsAreMappings(an_content.yaml)
     /\ WellTyped(an_content.yaml))
        => /\ Len(an_instances) = Len(Expected(an_content.yaml))
           /\ \A i \in 1..Len(an_instances) :
                LET e == Expected(an_content.yaml)[i] IN
                an_instances[i].step_name =
                    IF e.step.name.t # "missing" THEN e.step.name
                    ELSE StepLabel(e.k)

\* the first job has a named usage and then an unnamed one, "Step 2"; the second
\* job has an unnamed usage as its first step, "Step 1" again
C9_Witness ==
    /\ an_returned
    /\ Len(JobList(an_content.yaml)) = 2
    /\ Len(an_instances) = 3
    /\ an_instances[1].step_name = Checkout
    /\ an_instances[2].step_name = StepLabel(2)
    /\ an_instances[2].job = an_instances[1].job
    /\ an_instances[3].step_name = StepLabel(1)
    /\ an_instances[3].job # an_instances[1].job

-----------------------------------------------------------------------------
(* Properties of one file's contribution, under SpecTwoFiles *)

\* the analysis of the document raises at some job or step
RaisesInJobs(doc) ==
    /\ doc.t = "map"
    /\ doc.jobs.t = "map"
    /\ \/ \E j \in 1..Len(JobList(doc)) :
            \/ JobList(doc)[j].config.t = "null"
            \/ JobList(doc)[j].config.t = "map"
                 /\ JobList(doc)[j].config.steps.t = "null"
       \/ \E k \in 1..Len(Entries(doc)) :
            \/ Entries(doc)[k].step.t = "null"
            \/ Entries(doc)[k].step.t = "map" /\ Entries(doc)[k].step.uses.t = "null"

SecondDocument == search_results[2].response.content.text.yaml

\* C10: when the analysis of a file raises at a job or a step, the file
\* contributes nothing: the counter and the lists are what the files before it
\* made them, also when steps before the failing one use the target.
C10_AllOrNothing ==
    (files_processed = Len(search_results) /\ RaisesInJobs(SecondDocument)) =>
        /\ total_usages = Len(ItemRecords(search_results[1]))
        /\ DOMAIN usage_by_repo = {search_results[1].repository}
        /\ usage_by_repo[search_results[1].repository] = ItemRecords(search_results[1])
        /\ Printed([msg |-> "Error parsing workflow", path |-> search_results[2].path])

\* the second file has a usage in its first job and a later job that is no
\* mapping; only the two usages of the first file are counted
C10_Witness ==
    /\ pc = "done"
    /\ Len(JobList(SecondDocument)) = 2
    /\ Len(Expected(SecondDocument)) > 0
    /\ JobList(SecondDocument)[2].config.t = "null"
    /\ total_usages = Len(ItemRecords(search_results[1]))
    /\ report.total_usages = total_usages

====
